---------------------------- MODULE Spec2Model ----------------------------
(***************************************************************************)
(* Model of the ESG green-loan decision engine.                            *)
(*                                                                         *)
(*   src/app.py      GreenLoanContract (evaluate, audit log) and its form  *)
(*   src/app_new.py  the module-level scoring functions and their form     *)
(*                                                                         *)
(* Python floats are modelled as exact rationals [n |-> num, d |-> den]    *)
(* in lowest terms with d > 0.  The inputs of the model are whole numbers  *)
(* of credits and euros, for which the comparisons of the code             *)
(* (>=, <=, <) agree between the float and the exact value.                *)
(***************************************************************************)
EXTENDS Integers, Sequences, FiniteSets, TLC

(***************************************************************************)
(* Rational arithmetic (the float operators of Python).                    *)
(***************************************************************************)
Abs(x) == IF x < 0 THEN -x ELSE x

RECURSIVE GCD(_, _)
GCD(a, b) == IF b = 0 THEN a ELSE GCD(b, a % b)

Rat(n, d) ==
    LET g == GCD(Abs(n), Abs(d))
        s == IF d < 0 THEN -1 ELSE 1
    IN  [n |-> (s * n) \div g, d |-> (s * d) \div g]

FromInt(i) == [n |-> i, d |-> 1]

Zero == FromInt(0)
One == FromInt(1)

RAdd(x, y) ==
    LET g == GCD(x.d, y.d)
    IN  Rat(x.n * (y.d \div g) + y.n * (x.d \div g), (x.d \div g) * y.d)

RNeg(x) == [n |-> -x.n, d |-> x.d]

RSub(x, y) == RAdd(x, RNeg(y))

RMul(x, y) ==
    LET a == Rat(x.n, y.d)
        b == Rat(y.n, x.d)
    IN  [n |-> a.n * b.n, d |-> a.d * b.d]

\* x / y for y # 0 (Python raises ZeroDivisionError for y = 0)
RDiv(x, y) == RMul(x, Rat(y.d, y.n))

RLt(x, y) == x.n * y.d < y.n * x.d
RLe(x, y) == x.n * y.d <= y.n * x.d
RGe(x, y) == RLe(y, x)
RGt(x, y) == RLt(y, x)

\* Python's builtins min(a, b) and max(a, b): the first argument on a tie
RMin(x, y) == IF RLt(y, x) THEN y ELSE x
RMax(x, y) == IF RGt(y, x) THEN y ELSE x

RECURSIVE Pow10(_)
Pow10(k) == IF k = 0 THEN 1 ELSE 10 * Pow10(k - 1)

\* round(x, k): to k decimals, ties to the even neighbour
RRound(x, k) ==
    LET s == Pow10(k)
        q == x.n * s
        f == q \div x.d
        r == q - f * x.d
        m == IF 2 * r > x.d THEN f + 1
             ELSE IF 2 * r < x.d THEN f
             ELSE IF f % 2 = 0 THEN f ELSE f + 1
    IN  Rat(m, s)

(***************************************************************************)
(* Python helpers.                                                         *)
(***************************************************************************)
\* dict.get(key, default)
Get(table, key, default) == IF key \in DOMAIN table THEN table[key] ELSE default

\* str.lower() on the project type names the model uses
Lower(s) ==
    CASE s = "Reforestation" -> "reforestation"
      [] s = "Renewable" -> "renewable"
      [] s = "Cookstove" -> "cookstove"
      [] s = "Other" -> "other"
      [] s = "None" -> "none"
      [] s = "Unlisted" -> "unlisted"
      [] OTHER -> s

\* "".join(chars) for a sequence of one-character strings
RECURSIVE Join(_)
Join(chars) == IF chars = <<>> THEN "" ELSE Head(chars) \o Join(Tail(chars))

(***************************************************************************)
(* src/app.py: configuration constants.                                    *)
(***************************************************************************)
DEFAULT_REQUIRED_CREDITS_PER_1K == FromInt(10)
GREENWASH_GAP_TOLERANCE == Rat(10, 100)

REGISTRY_QUALITY_WEIGHTS ==
    ("Gold Standard" :> Rat(95, 100)) @@ ("Verra" :> Rat(90, 100)) @@
    ("Other" :> Rat(80, 100))

PROJECT_RISK_WEIGHTS ==
    ("Reforestation" :> Rat(90, 100)) @@ ("Renewable" :> Rat(95, 100)) @@
    ("Cookstove" :> Rat(85, 100)) @@ ("Other" :> Rat(80, 100))

BASE_RATE == Rat(6, 100)
PENALTY_RATE_STEP == Rat(3, 100)

(***************************************************************************)
(* src/app.py: BiologyValidator and GreenLoanContract.  `self` is the      *)
(* contract: [required_credits_per_1k, gap_tolerance, audit_log].          *)
(***************************************************************************)
BorrowerApplication(company_id, loan_requested, reported_credits, verified_credits, registry_source, project_type, meta) ==
    [company_id |-> company_id, loan_requested |-> loan_requested,
     reported_credits |-> reported_credits, verified_credits |-> verified_credits,
     registry_source |-> registry_source, project_type |-> project_type,
     meta |-> meta]

Decision(status, reason, interest_rate_apr, required_credits, greenwashing_score, audit_ref) ==
    [status |-> status, reason |-> reason,
     interest_rate_apr |-> interest_rate_apr,
     required_credits |-> required_credits,
     greenwashing_score |-> greenwashing_score, audit_ref |-> audit_ref]

BiologyValidator_score(app) ==
    LET s0 == One
        s1 == IF Lower(app.project_type) = "reforestation"
              THEN RMul(s0, Rat(95, 100)) ELSE s0
        s2 == IF Get(app.meta, "has_recent_remote_sensing", FALSE)
              THEN RMul(s1, One) ELSE RMul(s1, Rat(90, 100))
        s3 == IF Get(app.meta, "soil_tests_ok", TRUE) = FALSE
              THEN RMul(s2, Rat(80, 100)) ELSE s2
    IN  RMax(Zero, RMin(One, s3))

GreenLoanContract(required_credits, gap_tolerance) ==
    [required_credits_per_1k |-> required_credits,
     gap_tolerance |-> gap_tolerance,
     audit_log |-> <<>>]

required_credits(self, loan_requested) ==
    RMul(RDiv(FromInt(loan_requested), FromInt(1000)), self.required_credits_per_1k)

\* greenwash_signals with the fallback weight written as 0.0
greenwash_signals_zeroFallback(self, app) ==
    LET gap == IF app.verified_credits > 0
               THEN RMax(Zero, RDiv(FromInt(app.reported_credits - app.verified_credits),
                                    FromInt(app.verified_credits)))
               ELSE One
        reg_q == Get(REGISTRY_QUALITY_WEIGHTS, app.registry_source, Zero)
        proj_r == Get(PROJECT_RISK_WEIGHTS, app.project_type, Zero)
        bio_q == BiologyValidator_score(app)
    IN  [gap |-> gap, registry_quality |-> reg_q, project_quality |-> proj_r,
         biology_confidence |-> bio_q]

greenwash_signals(self, app) ==
    LET gap == IF app.verified_credits > 0
               THEN RMax(Zero, RDiv(FromInt(app.reported_credits - app.verified_credits),
                                    FromInt(app.verified_credits)))
               ELSE One
        reg_q == Get(REGISTRY_QUALITY_WEIGHTS, app.registry_source,
                     REGISTRY_QUALITY_WEIGHTS["Other"])
        proj_r == Get(PROJECT_RISK_WEIGHTS, app.project_type,
                      PROJECT_RISK_WEIGHTS["Other"])
        bio_q == BiologyValidator_score(app)
    IN  [gap |-> gap, registry_quality |-> reg_q, project_quality |-> proj_r,
         biology_confidence |-> bio_q]

\* greenwashing_score without the two clamps
greenwashing_score_unclamped(self, signals) ==
    LET gap_component == RDiv(signals.gap, self.gap_tolerance)
        quality_component ==
            RSub(One, RMul(Rat(1, 2), RAdd(signals.registry_quality,
                                           signals.project_quality)))
        bio_component == RSub(One, signals.biology_confidence)
        raw == RAdd(RAdd(RMul(Rat(1, 2), gap_component),
                         RMul(Rat(3, 10), quality_component)),
                    RMul(Rat(2, 10), bio_component))
    IN  RRound(RMul(FromInt(100), raw), 2)

\* greenwashing_score reading the contract's history: a surcharge of one
\* point for every record already in the audit log
greenwashing_score_logSurcharge(self, signals) ==
    LET gap_component == RMin(One, RDiv(signals.gap, self.gap_tolerance))
        quality_component ==
            RSub(One, RMul(Rat(1, 2), RAdd(signals.registry_quality,
                                           signals.project_quality)))
        bio_component == RSub(One, signals.biology_confidence)
        raw == RAdd(RAdd(RAdd(RMul(Rat(1, 2), gap_component),
                              RMul(Rat(3, 10), quality_component)),
                         RMul(Rat(2, 10), bio_component)),
                    Rat(Len(self.audit_log), 100))
    IN  RRound(RMul(FromInt(100), RMax(Zero, RMin(One, raw))), 2)

\* greenwashing_score with the parentheses of the quality component lost:
\* 1.0 - 0.5 * registry_quality + project_quality
greenwashing_score_missingParens(self, signals) ==
    LET gap_component == RMin(One, RDiv(signals.gap, self.gap_tolerance))
        quality_component ==
            RAdd(RSub(One, RMul(Rat(1, 2), signals.registry_quality)),
                 signals.project_quality)
        bio_component == RSub(One, signals.biology_confidence)
        raw == RAdd(RAdd(RMul(Rat(1, 2), gap_component),
                         RMul(Rat(3, 10), quality_component)),
                    RMul(Rat(2, 10), bio_component))
    IN  RRound(RMul(FromInt(100), RMax(Zero, RMin(One, raw))), 2)

greenwashing_score(self, signals) ==
    LET gap_component == RMin(One, RDiv(signals.gap, self.gap_tolerance))
        quality_component ==
            RSub(One, RMul(Rat(1, 2), RAdd(signals.registry_quality,
                                           signals.project_quality)))
        bio_component == RSub(One, signals.biology_confidence)
        raw == RAdd(RAdd(RMul(Rat(1, 2), gap_component),
                         RMul(Rat(3, 10), quality_component)),
                    RMul(Rat(2, 10), bio_component))
    IN  RRound(RMul(FromInt(100), RMax(Zero, RMin(One, raw))), 2)

\* price with the tier boundaries taken inclusively (<= for <)
price_inclusiveBounds(base_rate, score) ==
    IF RLe(score, FromInt(25)) THEN base_rate
    ELSE IF RLe(score, FromInt(50)) THEN RAdd(base_rate, PENALTY_RATE_STEP)
    ELSE IF RLe(score, FromInt(75))
         THEN RAdd(base_rate, RMul(FromInt(2), PENALTY_RATE_STEP))
    ELSE RAdd(base_rate, RMul(FromInt(3), PENALTY_RATE_STEP))

price(base_rate, score) ==
    IF RLt(score, FromInt(25)) THEN base_rate
    ELSE IF RLt(score, FromInt(50)) THEN RAdd(base_rate, PENALTY_RATE_STEP)
    ELSE IF RLt(score, FromInt(75))
         THEN RAdd(base_rate, RMul(FromInt(2), PENALTY_RATE_STEP))
    ELSE RAdd(base_rate, RMul(FromInt(3), PENALTY_RATE_STEP))

\* _log building the ref from the clock reading alone
_log_refWithoutCompany(self, app, signals, decision, now) ==
    LET ref == "evt_" \o ToString(now)
    IN  [ref |-> ref,
         audit_log |->
             Append(self.audit_log,
                    [ref |-> ref, company_id |-> app.company_id,
                     decision |-> decision, signals |-> signals,
                     timestamp |-> now \div 1000])]

\* _log keeping no record of a rejection
_log_dropsRejected(self, app, signals, decision, now) ==
    LET ref == "evt_" \o ToString(now) \o "_" \o app.company_id
    IN  [ref |-> ref,
         audit_log |->
             IF decision = "REJECTED" THEN self.audit_log
             ELSE Append(self.audit_log,
                         [ref |-> ref, company_id |-> app.company_id,
                          decision |-> decision, signals |-> signals,
                          timestamp |-> now \div 1000])]

\* `now` is the reading of time.time() in milliseconds.  The record's
\* hash_like field (a process-seeded fingerprint for display) is left out.
\* The result is the returned ref and the audit_log after the append.
_log(self, app, signals, decision, now) ==
    LET ref == "evt_" \o ToString(now) \o "_" \o app.company_id
    IN  [ref |-> ref,
         audit_log |->
             Append(self.audit_log,
                    [ref |-> ref, company_id |-> app.company_id,
                     decision |-> decision, signals |-> signals,
                     timestamp |-> now \div 1000])]

\* evaluate whose second branch does not ask for sufficient verified credits
evaluate_penaltyWithoutSufficiency(self, app, now) ==
    LET req == required_credits(self, app.loan_requested)
        signals == greenwash_signals(self, app)
        score == greenwashing_score(self, signals)
        has_sufficient_verified == RGe(FromInt(app.verified_credits), req)
        mismatch_ok == RLe(signals.gap, self.gap_tolerance)
    IN  IF has_sufficient_verified /\ mismatch_ok /\ RLt(score, FromInt(50))
        THEN LET rate == price(BASE_RATE, score)
                 lg == _log(self, app, signals, "APPROVED", now)
             IN  [ret |-> Decision("APPROVED", "Credits sufficient and clean signals",
                                   rate, req, score, lg.ref),
                  audit_log |-> lg.audit_log]
        ELSE IF RLt(score, FromInt(75))
        THEN LET rate == price(BASE_RATE, score)
                 lg == _log(self, app, signals, "APPROVED_WITH_PENALTY", now)
             IN  [ret |-> Decision("APPROVED_WITH_PENALTY",
                                   "Credits sufficient with moderate greenwashing risk",
                                   rate, req, score, lg.ref),
                  audit_log |-> lg.audit_log]
        ELSE LET lg == _log(self, app, signals, "REJECTED", now)
             IN  [ret |-> Decision("REJECTED",
                                   "Insufficient verified credits or high greenwashing risk",
                                   Zero, req, score, lg.ref),
                  audit_log |-> lg.audit_log]

\* The result is the returned Decision and the audit_log after the call.
evaluate(self, app, now) ==
    LET req == required_credits(self, app.loan_requested)
        signals == greenwash_signals(self, app)
        score == greenwashing_score(self, signals)
        has_sufficient_verified == RGe(FromInt(app.verified_credits), req)
        mismatch_ok == RLe(signals.gap, self.gap_tolerance)
    IN  IF has_sufficient_verified /\ mismatch_ok /\ RLt(score, FromInt(50))
        THEN LET rate == price(BASE_RATE, score)
                 lg == _log(self, app, signals, "APPROVED", now)
             IN  [ret |-> Decision("APPROVED", "Credits sufficient and clean signals",
                                   rate, req, score, lg.ref),
                  audit_log |-> lg.audit_log]
        ELSE IF has_sufficient_verified /\ RLt(score, FromInt(75))
        THEN LET rate == price(BASE_RATE, score)
                 lg == _log(self, app, signals, "APPROVED_WITH_PENALTY", now)
             IN  [ret |-> Decision("APPROVED_WITH_PENALTY",
                                   "Credits sufficient with moderate greenwashing risk",
                                   rate, req, score, lg.ref),
                  audit_log |-> lg.audit_log]
        ELSE LET lg == _log(self, app, signals, "REJECTED", now)
             IN  [ret |-> Decision("REJECTED",
                                   "Insufficient verified credits or high greenwashing risk",
                                   Zero, req, score, lg.ref),
                  audit_log |-> lg.audit_log]

(***************************************************************************)
(* src/app_new.py: the module-level scoring functions.  The score and the  *)
(* APR are on the scales of that file (0-10, percent).                     *)
(***************************************************************************)
REGISTRY_WEIGHTS ==
    ("Gold Standard" :> Rat(100, 100)) @@ ("Verra" :> Rat(95, 100)) @@
    ("Other" :> Rat(80, 100)) @@ ("None" :> Rat(60, 100))

PROJECT_WEIGHTS ==
    ("Reforestation" :> Rat(100, 100)) @@ ("Renewable" :> Rat(90, 100)) @@
    ("Cookstove" :> Rat(85, 100)) @@ ("Other" :> Rat(80, 100)) @@
    ("None" :> Rat(70, 100))

required_credits_eur(loan_eur, rule_per_1000) ==
    RRound(RMul(RDiv(FromInt(loan_eur), FromInt(1000)), rule_per_1000), 2)

new_greenwashing_score(verified, reported, registry, project, remote, soil) ==
    LET ver == IF verified < 0 THEN 0 ELSE verified
        b0 == FromInt(5)
        gap == RMax(FromInt(reported - ver), Zero)
        gap_ratio == IF reported > 0
                     THEN RDiv(gap, RMax(FromInt(reported), Rat(1, 1000000)))
                     ELSE Zero
        b1 == RAdd(b0, RMul(FromInt(2), RMax(Zero, RSub(One, RMin(gap_ratio, One)))))
        b2 == RAdd(b1, RMul(Rat(12, 10), Get(REGISTRY_WEIGHTS, registry, Rat(8, 10))))
        b3 == RAdd(b2, RMul(One, Get(PROJECT_WEIGHTS, project, Rat(8, 10))))
        b4 == IF remote THEN RAdd(b3, Rat(5, 10)) ELSE b3
        b5 == IF soil THEN RAdd(b4, Rat(3, 10)) ELSE b4
    IN  RRound(RMax(Zero, RMin(FromInt(10), RSub(b5, Rat(25, 10)))), 1)

apr_from_score(base_apr, score, registry, remote, soil) ==
    LET a0 == base_apr
        a1 == IF registry \in {"Gold Standard", "Verra"} THEN RSub(a0, Rat(25, 100)) ELSE a0
        a2 == IF remote THEN RSub(a1, Rat(10, 100)) ELSE a1
        a3 == IF soil THEN RSub(a2, Rat(10, 100)) ELSE a2
        a4 == IF RGe(score, Rat(85, 10)) THEN RSub(a3, Rat(25, 100)) ELSE a3
        a5 == IF RLt(score, FromInt(5)) THEN RAdd(a4, Rat(50, 100)) ELSE a4
    IN  RRound(RMax(Zero, a5), 2)

\* The reason is the pieces of the formatted text: the shortfall is a number.
decision_text(verified, needed) ==
    IF RGe(FromInt(verified), needed)
    THEN <<"APPROVED", <<"Credits sufficient and clean signals">>>>
    ELSE LET short == RRound(RSub(needed, FromInt(verified)), 2)
         IN  <<"REJECTED", <<"Insufficient verified credits. Shortfall ", short>>>>

\* company is the text as a sequence of characters; company.replace(' ', '')
new_audit_ref(company, now) ==
    LET NotSpace(c) == c # " "
    IN  "evt_" \o ToString(now) \o "_" \o Join(SelectSeq(company, NotSpace))

(***************************************************************************)
(* State.                                                                  *)
(*   variant   which script runs: "app.py" or "app_new.py"                 *)
(*   contract  the GreenLoanContract of the session (app.py)               *)
(*   clock     time.time() in milliseconds                                 *)
(*   form      the values of the input widgets                             *)
(*   returned  history: the application, the Decision and the clock        *)
(*             reading of every evaluate call, in call order               *)
(*   out_new   what the submitted handler of app_new.py last computed      *)
(*   priced    the last direct call of price: its arguments and result     *)
(***************************************************************************)
VARIABLES variant, contract, clock, form, returned, out_new, priced

vars == <<variant, contract, clock, form, returned, out_new, priced>>

MaxEvals == 3
MaxEvalsWide == 2
MaxClock == 2

NoOutput == [submitted |-> FALSE]
NoPrice == [called |-> FALSE]

Form(company, loan, reported, verified, registry, project, remote, soil_ok) ==
    [company |-> company, loan |-> loan, reported |-> reported,
     verified |-> verified, registry |-> registry, project |-> project,
     remote |-> remote, soil_ok |-> soil_ok]

\* the widget values before anything is loaded or typed (app.py)
DefaultForm ==
    Form(<<"D", "e", "m", "C", "o">>, 1000, 1000, 800, "Other", "Other", FALSE, TRUE)

\* inputs of a session: two applicants, one input per outcome
SessionCompanies == {<<"A">>, <<"1", "_", "A">>}

SessionForms ==
    UNION {{Form(c, 1000, 21, 20, "Other", "Other", FALSE, TRUE),
            Form(c, 1000, 10, 20, "Gold Standard", "Renewable", TRUE, TRUE),
            Form(c, 0, 100, 0, "Verra", "Reforestation", FALSE, FALSE),
            Form(c, 2500, 21, 5, "Other", "Reforestation", FALSE, FALSE)}
           : c \in SessionCompanies}

\* inputs of the single evaluations
WideCompanies == {<<"A", " ", "B">>}
LoanSet == {0, 1000}
ReportedSet == {0, 21, 100}
VerifiedSet == {0, 5, 20, 100}
RegistrySet == {"Gold Standard", "Verra", "Other", "None", "Unlisted"}
ProjectSet == {"Reforestation", "Renewable", "Cookstove", "Other", "None", "reforestation"}
ToleranceSet == {GREENWASH_GAP_TOLERANCE, Rat(2, 1)}
RequiredCreditsSet == {DEFAULT_REQUIRED_CREDITS_PER_1K, FromInt(5)}

WideForms ==
    {Form(c, l, r, 0, g, p, rs, so) :
        c \in WideCompanies, l \in LoanSet, r \in ReportedSet, g \in RegistrySet,
        p \in ProjectSet, rs \in BOOLEAN, so \in BOOLEAN}

BaseRateSet == {BASE_RATE, Zero}
ScoreSet ==
    {Rat(n, 100) : n \in {0, 600, 2499, 2500, 2501, 4999, 5000, 5001, 7499, 7500, 7501, 10000}}

(***************************************************************************)
(* Actions.                                                                *)
(***************************************************************************)
\* src/app.py `if submitted:` (and run_cli): build the application from the
\* inputs and evaluate it on the session's contract
Submit(f) ==
    /\ variant = "app.py"
    /\ LET app_obj == BorrowerApplication(Join(f.company), f.loan, f.reported,
                          f.verified, f.registry, f.project,
                          [has_recent_remote_sensing |-> f.remote,
                           soil_tests_ok |-> f.soil_ok])
           r == evaluate(contract, app_obj, clock)
       IN  /\ contract' = [contract EXCEPT !.audit_log = r.audit_log]
           /\ returned' = Append(returned, [app |-> app_obj, d |-> r.ret, at |-> clock])
    /\ form' = f
    /\ UNCHANGED <<variant, clock, out_new, priced>>

\* src/app_new.py `if submitted:`
SubmitNew(f) ==
    /\ variant = "app_new.py"
    /\ LET needed == required_credits_eur(f.loan, FromInt(10))
           score == new_greenwashing_score(f.verified, f.reported, f.registry,
                                           f.project, f.remote, f.soil_ok)
           apr == apr_from_score(FromInt(6), score, f.registry, f.remote, f.soil_ok)
           dt == decision_text(f.verified, needed)
           audit == new_audit_ref(IF f.company = <<>>
                                  THEN <<"U", "n", "k", "n", "o", "w", "n">>
                                  ELSE f.company, clock)
       IN  out_new' = [submitted |-> TRUE, form |-> f, needed |-> needed, score |-> score, apr |-> apr,
                       decision |-> dt[1], reason |-> dt[2], audit |-> audit]
    /\ form' = f
    /\ UNCHANGED <<variant, contract, clock, returned, priced>>

\* a direct call of GreenLoanContract.price
PriceCall(base_rate, score) ==
    /\ variant = "app.py"
    /\ priced' = [called |-> TRUE, base_rate |-> base_rate, score |-> score,
                  rate |-> price(base_rate, score)]
    /\ UNCHANGED <<variant, contract, clock, form, returned, out_new>>

\* time passes
Tick ==
    /\ clock < MaxClock
    /\ clock' = clock + 1
    /\ UNCHANGED <<variant, contract, form, returned, out_new, priced>>

(***************************************************************************)
(* Spec: one session of app.py on the default contract.                    *)
(***************************************************************************)
Init ==
    /\ variant = "app.py"
    /\ contract = GreenLoanContract(DEFAULT_REQUIRED_CREDITS_PER_1K, GREENWASH_GAP_TOLERANCE)
    /\ clock = 0
    /\ form = DefaultForm
    /\ returned = <<>>
    /\ out_new = NoOutput
    /\ priced = NoPrice

Next ==
    \/ \E f \in SessionForms : Len(returned) < MaxEvals /\ Submit(f)
    \/ Tick

Spec == Init /\ [][Next]_vars

(***************************************************************************)
(* SpecEval: either script, any configuration of the contract, any input;  *)
(* the verified credits are varied between the evaluations, all else is    *)
(* held fixed.                                                             *)
(***************************************************************************)
InitEval ==
    /\ variant \in {"app.py", "app_new.py"}
    /\ contract \in {GreenLoanContract(rc, tol) :
                        rc \in IF variant = "app.py" THEN RequiredCreditsSet
                               ELSE {DEFAULT_REQUIRED_CREDITS_PER_1K},
                        tol \in IF variant = "app.py" THEN ToleranceSet
                                ELSE {GREENWASH_GAP_TOLERANCE}}
    /\ clock = 0
    /\ form \in WideForms
    /\ returned = <<>>
    /\ out_new = NoOutput
    /\ priced = NoPrice

NextEval ==
    \/ \E v \in VerifiedSet :
          Len(returned) < MaxEvalsWide /\ Submit([form EXCEPT !.verified = v])
    \/ \E v \in VerifiedSet : SubmitNew([form EXCEPT !.verified = v])

SpecEval == InitEval /\ [][NextEval]_vars

(***************************************************************************)
(* SpecPrice: a session of app.py with direct calls of price.              *)
(***************************************************************************)
NextPrice ==
    \/ \E f \in SessionForms : Len(returned) < MaxEvals /\ Submit(f)
    \/ \E b \in BaseRateSet, s \in ScoreSet : PriceCall(b, s)

SpecPrice == Init /\ [][NextPrice]_vars

(***************************************************************************)
(* Properties.                                                             *)
(***************************************************************************)
Statuses == {"APPROVED", "APPROVED_WITH_PENALTY", "REJECTED"}

\* APPROVED >= APPROVED_WITH_PENALTY >= REJECTED
Rank(status) ==
    CASE status = "APPROVED" -> 2
      [] status = "APPROVED_WITH_PENALTY" -> 1
      [] OTHER -> 0

\* the evaluate calls made so far whose record is in the audit log
Calls == DOMAIN returned \cap DOMAIN contract.audit_log

\* C1: in either script every decision status is APPROVED,
\* APPROVED_WITH_PENALTY or REJECTED, and a REJECTED decision carries the
\* interest rate 0.
C1_RejectedHasZeroRate ==
    /\ \A i \in DOMAIN returned :
          /\ returned[i].d.status \in Statuses
          /\ returned[i].d.status = "REJECTED" => returned[i].d.interest_rate_apr = Zero
    /\ out_new.submitted =>
          /\ out_new.decision \in Statuses
          /\ out_new.decision = "REJECTED" => out_new.apr = Zero

C3_MonotoneInVerified ==
    \A i, j \in DOMAIN returned :
        LET a == returned[i].app
            b == returned[j].app
        IN  (/\ RGt(contract.gap_tolerance, Zero)
             /\ [a EXCEPT !.verified_credits = 0] = [b EXCEPT !.verified_credits = 0]
             /\ a.verified_credits <= b.verified_credits)
            => Rank(returned[j].d.status) >= Rank(returned[i].d.status)

\* C4: the greenwashing score is inside its bound for every input: [0, 100]
\* in app.py, [0, 10] in app_new.py.
C4_ScoreWithinBound ==
    /\ \A i \in DOMAIN returned :
          /\ RGe(returned[i].d.greenwashing_score, Zero)
          /\ RLe(returned[i].d.greenwashing_score, FromInt(100))
    /\ out_new.submitted =>
          /\ RGe(out_new.score, Zero)
          /\ RLe(out_new.score, FromInt(10))

\* C4 witness: a score was computed from a gap of 19 or more, many times
\* the tolerance
C4_Witness ==
    \E i \in Calls :
        /\ RGe(contract.audit_log[i].signals.gap, FromInt(19))
        /\ RGe(returned[i].d.greenwashing_score, FromInt(50))

\* C5: the gap signal is 0 whenever no credits are reported, for any
\* verified credits >= 0, verified = 0 included.
C5_GapZeroWhenNothingReported ==
    \A i \in Calls :
        returned[i].app.reported_credits = 0
            => contract.audit_log[i].signals.gap = Zero

\* the four tiers of the pricing, stated over the score in hundredths
Tier(base, score) ==
    LET step == Rat(3, 100)
        h == RMul(score, FromInt(100))
    IN  CASE h.n < 2500 * h.d -> base
          [] 2500 * h.d <= h.n /\ h.n < 5000 * h.d -> RAdd(base, step)
          [] 5000 * h.d <= h.n /\ h.n < 7500 * h.d -> RAdd(base, RAdd(step, step))
          [] 7500 * h.d <= h.n -> RAdd(base, RAdd(step, RAdd(step, step)))

\* C6: price is a four-tier step function of the score (base below 25, one
\* step more from 25, two from 50, three from 75), and the rate of every
\* APPROVED or APPROVED_WITH_PENALTY decision is price(BASE_RATE, score) for
\* the score of that decision.
C6_FourTierPricing ==
    /\ priced.called => priced.rate = Tier(priced.base_rate, priced.score)
    /\ \A i \in DOMAIN returned :
          returned[i].d.status \in {"APPROVED", "APPROVED_WITH_PENALTY"}
              => returned[i].d.interest_rate_apr
                     = Tier(Rat(6, 100), returned[i].d.greenwashing_score)

\* C6 witness: price was called on the boundary score 75, and decisions of
\* the second and the third tier were returned
C6_Witness ==
    /\ priced.called
    /\ priced.score = FromInt(75)
    /\ \E i, j \in DOMAIN returned :
          /\ returned[i].d.status = "APPROVED"
          /\ returned[i].d.interest_rate_apr = Rat(9, 100)
          /\ returned[j].d.status = "APPROVED_WITH_PENALTY"
          /\ returned[j].d.interest_rate_apr = Rat(12, 100)

\* C7: after any sequence of evaluate calls on one contract no two records
\* of audit_log carry the same ref and no two returned Decisions carry the
\* same audit_ref.
C7_RefsUnique ==
    \A i, j \in Calls :
        i # j => /\ contract.audit_log[i].ref # contract.audit_log[j].ref
                 /\ returned[i].d.audit_ref # returned[j].d.audit_ref

\* C7 as amended: two records of audit_log (two returned Decisions) carry
\* the same ref exactly when they were made for the same applicant
\* identifier at the same millisecond reading of the clock.
C7_RefsUniquePerReadingAndApplicant ==
    \A i, j \in Calls :
        LET same == /\ returned[i].at = returned[j].at
                    /\ returned[i].app.company_id = returned[j].app.company_id
        IN  /\ (contract.audit_log[i].ref = contract.audit_log[j].ref) <=> same
            /\ (returned[i].d.audit_ref = returned[j].d.audit_ref) <=> same

\* C7 witness: the same applicant was evaluated twice within one
\* millisecond and once more later, and another applicant within the first
\* millisecond
C7_Witness ==
    \E i, j, k \in Calls :
        /\ i # j
        /\ returned[i].at = returned[j].at
        /\ returned[i].app.company_id # returned[j].app.company_id
        /\ returned[k].at # returned[i].at
        /\ returned[k].app.company_id = returned[i].app.company_id

\* a Decision without its audit reference
Outcome(d) == [d EXCEPT !.audit_ref = ""]

\* C8: evaluation is independent of history: whatever was evaluated before
\* on the same contract, the same application gets the same status, reason,
\* interest rate, required credits, greenwashing score and signals; only
\* the audit reference may differ.
C8_IndependentOfHistory ==
    \A i, j \in Calls :
        returned[i].app = returned[j].app
            => /\ Outcome(returned[i].d) = Outcome(returned[j].d)
               /\ contract.audit_log[i].signals = contract.audit_log[j].signals

\* C8 witness: an application was evaluated on the empty log and again
\* after a different application had been evaluated and logged
C8_Witness ==
    \E i, k, j \in Calls :
        /\ i = 1 /\ i < k /\ k < j
        /\ returned[i].app = returned[j].app
        /\ returned[k].app # returned[i].app
        /\ returned[k].d.status # returned[i].d.status

C10_AuditLogInStep ==
    /\ [](Len(contract.audit_log) = Len(returned))
    /\ [][LET log == contract.audit_log
              logAfter == contract'.audit_log
          IN  /\ returned' = returned => logAfter = log
              /\ returned' # returned =>
                    /\ Len(returned') = Len(returned) + 1
                    /\ Len(logAfter) = Len(log) + 1
                    /\ SubSeq(logAfter, 1, Len(log)) = log
                    /\ logAfter[Len(logAfter)].decision
                           = returned'[Len(returned')].d.status
                    /\ logAfter[Len(logAfter)].ref
                           = returned'[Len(returned')].d.audit_ref]_vars

\* C10 witness: three evaluations of three different outcomes are logged
C10_Witness ==
    /\ Len(contract.audit_log) = 3
    /\ {contract.audit_log[i].decision : i \in 1..3} = Statuses
    /\ \A i \in 1..3 : contract.audit_log[i].decision = returned[i].d.status

\* C11: on a contract with the default gap tolerance 0.10 (and the default
\* weight tables and BiologyValidator multipliers) the greenwashing score of
\* app.py never reaches 75; so evaluate returns REJECTED if and only if
\* verified_credits < required credits, no decision carries the rate of the
\* base + 3 steps tier, and every APPROVED_WITH_PENALTY decision has
\* 50 <= score < 75 and the rate BASE_RATE + 2 x PENALTY_RATE_STEP.
C11_ScoreBelow75 ==
    contract.gap_tolerance = Rat(1, 10) =>
        \A i \in Calls :
            LET a == returned[i].app
                d == returned[i].d
                h == RMul(d.greenwashing_score, FromInt(100))
                insufficient ==
                    a.verified_credits * 1000 * contract.required_credits_per_1k.d
                        < a.loan_requested * contract.required_credits_per_1k.n
            IN  /\ h.n < 7500 * h.d
                /\ (d.status = "REJECTED") <=> insufficient
                /\ d.interest_rate_apr # Rat(15, 100)
                /\ d.status = "APPROVED_WITH_PENALTY" =>
                      /\ 5000 * h.d <= h.n
                      /\ d.interest_rate_apr = Rat(12, 100)

\* C11 witness: on the default tolerance the worst input (unlisted registry,
\* a project typed "reforestation", no remote sensing, failed soil tests, a
\* gap above the tolerance) got the score 62.32 with a penalty approval, and
\* the same input with no verified credits was rejected
C11_Witness ==
    /\ contract.gap_tolerance = Rat(1, 10)
    /\ \E i, j \in Calls :
          /\ returned[i].d.status = "APPROVED_WITH_PENALTY"
          /\ returned[i].d.greenwashing_score = Rat(6232, 100)
          /\ returned[j].d.status = "REJECTED"
          /\ returned[j].d.greenwashing_score = Rat(6232, 100)

=============================================================================
